---- MODULE Spec2Model ----
(***************************************************************************)
(* A state-machine model of yosai's DefaultAuthenticator                   *)
(* (src/yosai/core/authc/authc.py) driving AccountStoreRealm and           *)
(* DefaultCredentialsCacheHandler (src/yosai/realm/realm.py).              *)
(*                                                                         *)
(* One authenticate_account call is a short run of steps: the sequence     *)
(* check and realm resolution (Start), the realm's cache lookup, store     *)
(* fetch, cache write, credential verification and cache clear, and the    *)
(* authenticator's handling of what the realm (or the strategy) produced   *)
(* (Complete).  Python's None is a named value of the same shape as the    *)
(* values it stands in for (NoId, NoAccount, NoIdentifiers).  An exception *)
(* is the name of its class; the call's result says whether the call       *)
(* returned or raised, and what.                                           *)
(***************************************************************************)
EXTENDS Integers, Sequences, FiniteSets, TLC

(***************************************************************************)
(* Bounds of the model and constants of the program.                       *)
(***************************************************************************)

\* the configured account_lock_threshold, when one is configured
LockThreshold ==
    3

\* UsernamePasswordToken.TIER
UsernamePasswordTokenTIER ==
    1

\* TOTPToken.TIER
TOTPTokenTIER ==
    2

(***************************************************************************)
(* Data: identifiers, tokens, accounts.                                    *)
(***************************************************************************)

\* None, where an identifier is expected
NoId ==
    "None"

Identifiers ==
    {"alice"}

TokenClasses ==
    {"UsernamePasswordToken", "TOTPToken"}

\* authc_token.TIER, a class attribute
TIER(cls) ==
    IF cls = "UsernamePasswordToken" THEN UsernamePasswordTokenTIER
                                     ELSE TOTPTokenTIER

\* SimpleIdentifierCollection: only its primary identifier is read here
IdentifierCollection(id) ==
    [primary_identifier |-> id]

\* None, where an identifier collection is expected
NoIdentifiers ==
    IdentifierCollection(NoId)

\* the credentials a token of a class may carry: the first is the one the
\* account store holds for the account
StoredCredentials(cls) ==
    IF cls = "UsernamePasswordToken" THEN "hunter2" ELSE "123456"

WrongCredentials(cls) ==
    IF cls = "UsernamePasswordToken" THEN "letmein" ELSE "654321"

\* the lengths of the failure histories the account store may hold:
\* none, at the threshold, above the threshold
FailedLengths ==
    {0, LockThreshold, LockThreshold + 1}

FailedAttempts(n) ==
    [i \in 1..n |-> i]

\* authc_info: token class name -> {credentials, failed_attempts}
AuthcInfo(classes, n) ==
    [cls \in classes |->
        [credentials |-> StoredCredentials(cls),
         failed_attempts |-> FailedAttempts(n)]]

\* an account as the account store returns it
Account(id, classes, n) ==
    [account_id |-> IdentifierCollection(id),
     authc_info |-> AuthcInfo(classes, n)]

\* None, where an account is expected
NoAccount ==
    [account_id |-> NoIdentifiers, authc_info |-> AuthcInfo({}, 0)]

\* the accounts of an identity: password only, or password and TOTP (MFA)
AccountsOf(id) ==
    {Account(id, classes, n) :
        classes \in {{"UsernamePasswordToken"}, TokenClasses},
        n \in FailedLengths}

\* a token as the caller constructed it; a TOTPToken is built without an
\* identifier attribute
Token(cls, id, cred) ==
    [class |-> cls, identifier |-> id, credentials |-> cred]

Tokens ==
    {Token("UsernamePasswordToken", id, cred) :
        id \in Identifiers,
        cred \in {StoredCredentials("UsernamePasswordToken"),
                  WrongCredentials("UsernamePasswordToken")}}
    \cup
    {Token("TOTPToken", NoId, cred) :
        cred \in {StoredCredentials("TOTPToken"), WrongCredentials("TOTPToken")}}

NoToken ==
    Token("None", NoId, "None")


(***************************************************************************)
(* Realms.  A realm is what the authenticator and the realm's own code     *)
(* read of it: the token classes it registers (supported_authc_tokens),    *)
(* whether a credentials cache handler and an account store are bound,     *)
(* and whether it is a LockingRealm.  A realm's name is its position.      *)
(***************************************************************************)

Realm(supported, cch, store, locking) ==
    [supported |-> supported, credentials_cache_handler |-> cch,
     account_store |-> store, locking |-> locking]

\* password and TOTP, cache handler, account store, lock capability
FullRealm ==
    Realm(TokenClasses, TRUE, TRUE, TRUE)

RealmConfigs ==
    {Realm(s, cch, store, locking) :
        s \in {{"UsernamePasswordToken"}, TokenClasses},
        cch \in BOOLEAN, store \in BOOLEAN, locking \in BOOLEAN}

\* the realm tuples init_realms is given: none, one realm of any
\* configuration, or two realms of which one is fully configured
RealmSetups ==
    {<<>>}
    \cup {<<r>> : r \in RealmConfigs}
    \cup {<<r, FullRealm>> : r \in RealmConfigs}
    \cup {<<FullRealm, r>> : r \in RealmConfigs}

(***************************************************************************)
(* What a call leaves behind: the side effects in the order they happened, *)
(* and how a realm, the strategy or the call itself ended.                 *)
(***************************************************************************)

\* one side effect of a call: a realm operation, a published event,
\* lock_account or send_challenge
Effect(op, topic, arg, realm) ==
    [op |-> op, topic |-> topic, arg |-> arg, realm |-> realm]

Publish(topic, identifier) ==
    Effect("publish", topic, identifier, 0)

\* how realm.authenticate_account or do_authenticate_account ended:
\* kind is "none" (still running), "return" or "raise"
Outcome(kind, exc, account) ==
    [kind |-> kind, exc |-> exc, account |-> account]

NoOutcome ==
    Outcome("none", "none", NoAccount)

\* how authenticate_account ended, as its caller sees it
Result(kind, exc, account_id) ==
    [kind |-> kind, exc |-> exc, account_id |-> account_id]

NoResult ==
    Result("none", "none", NoIdentifiers)

Raise(exc) ==
    Result("raise", exc, NoIdentifiers)

\* the items of a session event: the topic it came under and the session's
\* identifier collection, realm by realm
SessionItems(topic, identifiers) ==
    [topic |-> topic, identifiers |-> identifiers]

\* no session event since the last request
NoSession ==
    SessionItems("none", <<>>)

\* the callers of authenticate_account; the requests of Spec come one at a
\* time, from one handler
Callers ==
    {"c1", "c2"}

SeqCallers ==
    {"c1"}

IdleCall ==
    [pc |-> "idle", identifiers |-> NoIdentifiers, submitted |-> NoToken,
     token |-> NoToken, multi |-> FALSE, todo |-> <<>>, ri |-> 0,
     account |-> NoAccount, rout |-> NoOutcome, errors |-> <<>>,
     trace |-> <<>>, result |-> NoResult]

(***************************************************************************)
(* Token objects (UsernamePasswordToken, TOTPToken) as their constructors  *)
(* and clear() see them.  A value is its Python type and its content: the  *)
(* bytes of a str, bytes or bytearray, or a number counted in halves, so   *)
(* that a float between two integers is a value of its own.                *)
(***************************************************************************)

\* the longest password tried
MaxPasswordLen ==
    2

\* the clear() calls made on one token
MaxClears ==
    2

\* TOTPToken.credentials: the least value accepted
TOTPFloor ==
    100000

\* TOTPToken.credentials: the least value above those accepted
TOTPCeiling ==
    1000000

\* the byte values of the passwords tried: NUL and 'a'
ByteValues ==
    {0, 97}

ByteStrings ==
    UNION {[1..n -> ByteValues] : n \in 0..MaxPasswordLen}

\* a str, bytes or bytearray value
Buffer(type, bytes) ==
    [type |-> type, bytes |-> bytes, halves |-> 0]

\* an int or float value: halves / 2
Number(type, halves) ==
    [type |-> type, bytes |-> <<>>, halves |-> halves]

NoneValue ==
    [type |-> "None", bytes |-> <<>>, halves |-> 0]

\* the passwords handed to UsernamePasswordToken
Passwords ==
    {Buffer(type, bytes) :
        type \in {"str", "bytes", "bytearray"}, bytes \in ByteStrings}
    \cup {NoneValue}

\* the usernames handed to UsernamePasswordToken: None, '' and two names
Usernames ==
    {NoId, "", "alice", "bob"}

\* the integers tried as one-time codes
Codes ==
    {-1, 0, TOTPFloor - 1, TOTPFloor, TOTPFloor + 1, TOTPCeiling - 2,
     TOTPCeiling - 1, TOTPCeiling, TOTPCeiling + 1}

\* the values handed to TOTPToken: integers, floats half a unit above an
\* integer, a str, None
TOTPInputs ==
    {Number("int", 2 * n) : n \in Codes}
    \cup {Number("float", 2 * n + 1) : n \in Codes}
    \cup {Buffer("str", <<97>>), NoneValue}

\* a token object: the class, what its constructor was given, whether the
\* constructor returned ("constructed") or raised ("failed"), the
\* attributes _identifier and _credentials, the clear() calls made and
\* what the last operation raised
TokenObject(cls, username, given, state, identifier, credentials, clears, raised) ==
    [class |-> cls, username |-> username, given |-> given, state |-> state,
     identifier |-> identifier, credentials |-> credentials,
     clears |-> clears, raised |-> raised]

NoTokenObject ==
    TokenObject("none", NoId, NoneValue, "none", NoId, NoneValue, 0, "none")

(***************************************************************************)
(* Authorization info, as AccountStoreRealm.get_authorization_info hands   *)
(* it out.                                                                 *)
(***************************************************************************)

Roles ==
    {"admin"}

Permissions ==
    {"read", "write"}

\* IndexedAuthorizationInfo(roles, permissions), and what the store returns
AuthzInfo(roles, permissions) ==
    [roles |-> roles, permissions |-> permissions]

\* None, where authorization info is expected
NoAuthzInfo ==
    AuthzInfo({"None"}, {"None"})

AuthzInfos ==
    {AuthzInfo(roles, permissions) :
        roles \in SUBSET Roles, permissions \in SUBSET Permissions}

\* realm.account_store on the authorization side: whether one is bound,
\* and what it holds per identifier
AuthzStore(bound, info) ==
    [bound |-> bound, info |-> info]

\* the identifiers handed to get_authorization_info: an identifier
\* collection, or a plain str
AuthzIdentifiers(kind, id) ==
    [kind |-> kind, primary_identifier |-> id]

\* what the authorization cache and the store held for the identifiers
\* when a call was made
Held(cache, store) ==
    [cache |-> cache, store |-> store]

\* one call of get_authorization_info or clear_cached_authorization_info:
\* its argument, what cache and store held then, how it ended ("return"
\* or "raise"), what it returned, and whether it wrote the cache
AuthzCall(op, identifiers, held, kind, exc, info, wrote) ==
    [op |-> op, identifiers |-> identifiers, held |-> held, kind |-> kind,
     exc |-> exc, info |-> info, wrote |-> wrote]

NoAuthzCall ==
    AuthzCall("none", AuthzIdentifiers("none", NoId),
              Held(NoAuthzInfo, NoAuthzInfo), "none", "none", NoAuthzInfo, FALSE)

\* the permissions a caller asks is_permitted about, in the order asked
PermissionQueries ==
    {<<>>, <<"read">>, <<"write", "read">>}

\* the role ids a caller asks has_role about: "guest" is a role nobody has
RoleQueries ==
    {<<"admin">>, <<"guest", "admin">>}

\* the generator a call of is_permitted or has_role returns: its
\* arguments, where it stands ("created": no next() yet, "running",
\* "exhausted", "raised"), the get_authorization_info calls it has made and
\* the last of them, the pairs it has yielded and what it raised
AuthzQuery(op, identifiers, requested, state, fetches, fetch, yielded, exc) ==
    [op |-> op, identifiers |-> identifiers, requested |-> requested,
     state |-> state, fetches |-> fetches, fetch |-> fetch,
     yielded |-> yielded, exc |-> exc]

NoAuthzQuery ==
    AuthzQuery("none", AuthzIdentifiers("none", NoId), <<>>, "none", 0,
               NoAuthzCall, <<>>, "none")

VARIABLES
    account_lock_threshold, \* authc_settings.account_lock_threshold (0: unset)
    mfa_challenger,         \* whether the settings configure an MFA challenger
    event_bus,              \* whether an event bus is attached
    registered,             \* the topics clear_cache is registered for
    initialised,            \* whether init_realms has run (realms is not None)
    realms,                 \* self.realms
    token_realm_resolver,   \* token class -> the realms that registered it
    locking_realm,          \* self.locking_realm (0: None)
    locking_limit,          \* self.locking_limit (0: None)
    account_store,          \* the account store: identifier -> account
    credentials_cache,      \* per realm, the cache: key -> account
    locked,                 \* the lock_account calls made: <<realm, identifier>>
    calls,                  \* per caller, its authenticate_account call
    continuations,          \* the identifiers that callers hold from an
                            \* AdditionalAuthenticationRequired of a tier-1 call
    breached,               \* the identifiers whose failures went past the
                            \* locking limit in a failed call
    session,                \* the last SESSION event put on the event bus
    token,                  \* a token object: its construction and clear()
    authorization_cache_handler, \* whether the realm has one bound
    authorization_cache,    \* the authorization cache: identifier -> info
    authz_store,            \* the store's authorization info, per identifier
    authz_call,             \* the realm's last authorization query
    authz_query             \* a generator of is_permitted or has_role

settings ==
    <<account_lock_threshold, mfa_challenger>>

authenticator ==
    <<event_bus, registered, initialised, realms, token_realm_resolver,
      locking_realm, locking_limit>>

\* the state of the authenticator and of the realms' authentication side
authc_vars ==
    <<account_lock_threshold, mfa_challenger, event_bus, registered,
      initialised, realms, token_realm_resolver, locking_realm, locking_limit,
      account_store, credentials_cache, locked, calls, continuations,
      breached, session>>

\* a token object on its own
token_vars ==
    <<token>>

\* the realm's authorization side
authz_vars ==
    <<authorization_cache_handler, authorization_cache, authz_store, authz_call,
      authz_query>>

\* what an authentication step leaves alone
bystanders ==
    <<token_vars, authz_vars>>

vars ==
    <<authc_vars, token_vars, authz_vars>>

\* DefaultAuthenticator.__init__: no realms, no resolver, no locking realm,
\* no event bus; no request and no session event yet
AuthenticatorConstructed ==
    /\ event_bus = FALSE
    /\ registered = {}
    /\ initialised = FALSE
    /\ realms = <<>>
    /\ token_realm_resolver = [cls \in TokenClasses |-> <<>>]
    /\ locking_realm = 0
    /\ locking_limit = 0
    /\ credentials_cache = <<>>
    /\ locked = {}
    /\ calls = [c \in Callers |-> IdleCall]
    /\ continuations = {}
    /\ breached = {}
    /\ session = NoSession

\* no token object is under study
NoTokenYet ==
    token = NoTokenObject

\* no authorization query is under study: a realm with nothing bound
NoAuthzYet ==
    /\ authorization_cache_handler = FALSE
    /\ authorization_cache = [id \in Identifiers |-> NoAuthzInfo]
    /\ authz_store = AuthzStore(FALSE, [id \in Identifiers |-> NoAuthzInfo])
    /\ authz_call = NoAuthzCall
    /\ authz_query = NoAuthzQuery

\* the state after DefaultAuthenticator.__init__, with an account store
\* that holds the identity's account or not
Init ==
    /\ account_lock_threshold \in {0, LockThreshold}
    /\ mfa_challenger \in BOOLEAN
    /\ account_store \in
          [Identifiers -> UNION {AccountsOf(id) : id \in Identifiers}
                          \cup {NoAccount}]
    /\ \A id \in Identifiers :
          account_store[id] \in AccountsOf(id) \cup {NoAccount}
    /\ AuthenticatorConstructed
    /\ NoTokenYet
    /\ NoAuthzYet

AllIdle ==
    \A c \in Callers : calls[c].pc = "idle"

(***************************************************************************)
(* Configuration of the authenticator.                                     *)
(***************************************************************************)

\* an event bus is attached to the authenticator (authenticator.event_bus
\* is assigned by the application)
SetEventBus ==
    /\ ~event_bus
    /\ AllIdle
    /\ event_bus' = TRUE
    /\ UNCHANGED <<bystanders, continuations, breached, session, settings,
                   registered, initialised, realms,
                   token_realm_resolver, locking_realm, locking_limit,
                   account_store, credentials_cache, locked, calls>>

\* register_cache_clear_listener
RegisterCacheClearListener ==
    IF event_bus THEN {"SESSION.EXPIRE", "SESSION.STOP"} ELSE {}

\* init_token_resolution: per token class, the realms that list it, in
\* configuration order
InitTokenResolution(rs) ==
    [cls \in TokenClasses |->
        SelectSeq([i \in 1..Len(rs) |-> i], LAMBDA i : cls \in rs[i].supported)]

\* a faulty variant of LocateLockingRealm: the loop runs to its end and the
\* last LockingRealm is kept
LocateLockingRealmLast(rs) ==
    IF \E i \in 1..Len(rs) : rs[i].locking
    THEN CHOOSE i \in 1..Len(rs) :
            /\ rs[i].locking
            /\ \A j \in (i + 1)..Len(rs) : ~rs[j].locking
    ELSE 0

\* locate_locking_realm: the first LockingRealm, or None
LocateLockingRealm(rs) ==
    IF \E i \in 1..Len(rs) : rs[i].locking
    THEN CHOOSE i \in 1..Len(rs) :
            /\ rs[i].locking
            /\ \A j \in 1..(i - 1) : ~rs[j].locking
    ELSE 0

\* init_realms(realms), with init_locking
InitRealms(rs) ==
    /\ ~initialised
    /\ AllIdle
    /\ initialised' = TRUE
    /\ realms' = rs
    /\ registered' = RegisterCacheClearListener
    /\ token_realm_resolver' = InitTokenResolution(rs)
    /\ IF account_lock_threshold # 0
       THEN /\ locking_realm' = LocateLockingRealm(rs)
            /\ locking_limit' = account_lock_threshold
       ELSE UNCHANGED <<locking_realm, locking_limit>>
    /\ credentials_cache' =
          [r \in 1..Len(rs) |-> [id \in Identifiers |-> NoAccount]]
    /\ UNCHANGED <<bystanders, continuations, breached, session, settings,
                   event_bus, account_store, locked, calls>>


(***************************************************************************)
(* The collaborators the realm calls: the cache key resolver, the cache,   *)
(* the account store and the credential verifier.                          *)
(***************************************************************************)

\* credentials_cache_key_resolver.get_cache_key(authc_token=..., account=...)
\* and get_cache_key(account_id=...): the key is the identifier
GetCacheKey(identifier) ==
    identifier

\* DefaultCredentialsCacheHandler.get_cached_credentials: cache.get(key)
GetCachedCredentials(cache, tok) ==
    cache[GetCacheKey(tok.identifier)]

\* a faulty variant of CacheCredentials: the key is resolved and nothing is
\* put
CacheCredentialsDropped(cache, tok, account) ==
    cache

\* DefaultCredentialsCacheHandler.cache_credentials: cache.put(key, account)
CacheCredentials(cache, tok, account) ==
    [cache EXCEPT ![GetCacheKey(tok.identifier)] = account]

\* a faulty variant of ClearCachedCredentials: the key is looked up and the
\* entry is left in the cache
ClearCachedCredentialsKept(cache, account_id) ==
    cache

\* DefaultCredentialsCacheHandler.clear_cached_credentials:
\* cache.remove(key), nothing when there is no key
ClearCachedCredentials(cache, account_id) ==
    IF GetCacheKey(account_id) = NoId
    THEN cache
    ELSE [cache EXCEPT ![GetCacheKey(account_id)] = NoAccount]

\* account_store.get_account(authc_token)
GetAccount(tok) ==
    account_store[tok.identifier]

\* credentials_verifier.credentials_match(authc_token, account), for an
\* account that is not None
CredentialsMatch(tok, account) ==
    /\ tok.class \in DOMAIN account.authc_info
    /\ account.authc_info[tok.class].credentials = tok.credentials

\* what credentials_match may do when handed None for the account
MatchOfNone ==
    {"True", "False", "TypeError"}

(***************************************************************************)
(* DefaultAuthenticator.authenticate_account, first part: the sequence     *)
(* check and the choice of realms.                                         *)
(***************************************************************************)

\* a faulty variant of SequenceViolation: only the token is looked at, and a
\* token without an identifier is let through when there is no collection
SequenceViolationInverted(identifiers, tok) ==
    /\ tok.identifier = NoId
    /\ identifiers # NoIdentifiers

\* lines 208-209: the token has no identifier and none was supplied
SequenceViolation(identifiers, tok) ==
    /\ tok.identifier = NoId
    /\ identifiers = NoIdentifiers

\* line 212: the token takes the collection's primary identifier
WithIdentifier(identifiers, tok) ==
    IF tok.identifier = NoId
    THEN [tok EXCEPT !.identifier = identifiers.primary_identifier]
    ELSE tok

\* the call has ended: what do_authenticate_account produced stays on
\* record with the result
Ended(call, out, result) ==
    [call EXCEPT !.pc = "done", !.rout = out, !.result = result,
                 !.errors = <<>>]

\* the call enters realm.authenticate_account of the realm at position i
\* of the realms it is to try
EnterRealm(call, i) ==
    [call EXCEPT !.pc = "get_cached", !.ri = i, !.account = NoAccount,
                 !.rout = NoOutcome,
                 !.trace = Append(@, Effect("authenticate_account", "",
                                            call.token.identifier,
                                            call.todo[i]))]

\* authenticate_account(identifiers, authc_token) up to the dispatch of
\* do_authenticate_account (lines 207-215, 249-255)
Start(c, identifiers, tok) ==
    /\ calls[c].pc = "idle"
    /\ LET call == [IdleCall EXCEPT !.identifiers = identifiers,
                                    !.submitted = tok,
                                    !.token = WithIdentifier(identifiers, tok)]
           resolved == token_realm_resolver[tok.class]
       IN calls' = [calls EXCEPT ![c] =
            IF SequenceViolation(identifiers, tok)
            THEN Ended(call, NoOutcome,
                       Raise("InvalidAuthenticationSequenceException"))
            ELSE IF ~initialised
            THEN Ended(call, NoOutcome, Raise("TypeError"))
            ELSE IF Len(realms) = 1
            THEN IF resolved = <<>>
                 THEN Ended(call, NoOutcome, Raise("IndexError"))
                 ELSE EnterRealm([call EXCEPT !.todo = <<resolved[1]>>], 1)
            ELSE IF Len(realms) = 0
                 THEN [call EXCEPT !.pc = "realm_done", !.multi = TRUE]
                 ELSE EnterRealm([call EXCEPT !.multi = TRUE,
                                     !.todo = [i \in 1..Len(realms) |-> i]], 1)]
    /\ session' = NoSession
    /\ UNCHANGED <<bystanders, continuations, breached, settings,
                   authenticator, account_store, credentials_cache,
                   locked>>

(***************************************************************************)
(* AccountStoreRealm.authenticate_account, step by step.                   *)
(***************************************************************************)

CurrentRealm(call) ==
    call.todo[call.ri]

RealmEnded(call, outcome) ==
    [call EXCEPT !.pc = "realm_done", !.rout = outcome]

\* get_credentials, lines 183-187: the cache lookup
RealmGetCached(c) ==
    /\ calls[c].pc = "get_cached"
    /\ LET call == calls[c]
           r == CurrentRealm(call)
           cch == realms[r].credentials_cache_handler
           account == IF cch
                      THEN GetCachedCredentials(credentials_cache[r], call.token)
                      ELSE NoAccount
           tr == IF cch
                 THEN Append(call.trace,
                             Effect("get_cached_credentials",
                                    IF account = NoAccount THEN "miss" ELSE "hit",
                                    call.token.identifier, r))
                 ELSE call.trace
       IN calls' = [calls EXCEPT ![c] =
            [call EXCEPT !.account = account, !.trace = tr,
                         !.pc = IF account = NoAccount THEN "get_account"
                                                       ELSE "verify"]]
    /\ UNCHANGED <<bystanders, continuations, breached, session, settings,
                   authenticator, account_store, credentials_cache,
                   locked>>

\* a faulty variant of RealmGetAccount: a realm without an account store
\* goes on as if the store had no account for the token
RealmGetAccountUnbound(c) ==
    /\ calls[c].pc = "get_account"
    /\ LET call == calls[c]
           r == CurrentRealm(call)
           account == IF realms[r].account_store THEN GetAccount(call.token)
                                                 ELSE NoAccount
           tr == Append(call.trace,
                        Effect("get_account",
                               IF account = NoAccount THEN "absent" ELSE "found",
                               call.token.identifier, r))
       IN calls' = [calls EXCEPT ![c] =
            [call EXCEPT !.account = account, !.trace = tr,
                         !.pc = IF /\ account # NoAccount
                                   /\ realms[r].credentials_cache_handler
                                THEN "cache_credentials"
                                ELSE "verify"]]
    /\ UNCHANGED <<bystanders, continuations, breached, session, settings,
                   authenticator, account_store, credentials_cache, locked>>

\* get_credentials, lines 188-197: the account store is asked
RealmGetAccount(c) ==
    /\ calls[c].pc = "get_account"
    /\ LET call == calls[c]
           r == CurrentRealm(call)
           account == GetAccount(call.token)
           tr == Append(call.trace,
                        Effect("get_account",
                               IF account = NoAccount THEN "absent" ELSE "found",
                               call.token.identifier, r))
       IN calls' = [calls EXCEPT ![c] =
            IF ~realms[r].account_store
            THEN RealmEnded(call, Outcome("raise", "RealmMisconfiguredException",
                                          NoAccount))
            ELSE [call EXCEPT !.account = account, !.trace = tr,
                              !.pc = IF /\ account # NoAccount
                                        /\ realms[r].credentials_cache_handler
                                     THEN "cache_credentials"
                                     ELSE "verify"]]
    /\ UNCHANGED <<bystanders, continuations, breached, session, settings,
                   authenticator, account_store, credentials_cache,
                   locked>>

\* get_credentials, lines 204-206: the fetched account is written to the cache
RealmCacheCredentials(c) ==
    /\ calls[c].pc = "cache_credentials"
    /\ LET call == calls[c]
           r == CurrentRealm(call)
           nokey == GetCacheKey(call.token.identifier) = NoId
       IN /\ calls' = [calls EXCEPT ![c] =
               IF nokey
               THEN RealmEnded(call, Outcome("raise", "CacheCredentialsException",
                                             NoAccount))
               ELSE [call EXCEPT !.pc = "verify",
                                 !.trace = Append(@, Effect("cache_credentials", "",
                                                  call.token.identifier, r))]]
          /\ credentials_cache' =
               IF nokey
               THEN credentials_cache
               ELSE [credentials_cache EXCEPT ![r] =
                        CacheCredentials(@, call.token, call.account)]
    /\ UNCHANGED <<bystanders, continuations, breached, session, settings,
                   authenticator, account_store, locked>>

\* a faulty variant of RealmVerify: on a mismatch the cache entry of the
\* token's identifier is removed before the exception is raised
RealmVerifyClearing(c) ==
    /\ calls[c].pc = "verify"
    /\ LET call == calls[c]
           r == CurrentRealm(call)
       IN \E none \in MatchOfNone :
            LET verdict == IF call.account = NoAccount
                           THEN none
                           ELSE IF CredentialsMatch(call.token, call.account)
                                THEN "True" ELSE "False"
                tr == Append(call.trace,
                             Effect("credentials_match", verdict,
                                    call.account.account_id.primary_identifier, r))
            IN /\ calls' = [calls EXCEPT ![c] =
                    IF verdict = "True"
                    THEN [call EXCEPT !.pc = "clear", !.trace = tr]
                    ELSE IF verdict = "False"
                    THEN RealmEnded([call EXCEPT !.trace = tr],
                                    Outcome("raise", "IncorrectCredentialsException",
                                            NoAccount))
                    ELSE RealmEnded([call EXCEPT !.trace = tr],
                                    Outcome("raise", verdict, NoAccount))]
               /\ credentials_cache' =
                    IF verdict = "False"
                    THEN [credentials_cache EXCEPT ![r] =
                             ClearCachedCredentials(@, call.token.identifier)]
                    ELSE credentials_cache
    /\ UNCHANGED <<bystanders, continuations, breached, session, settings,
                   authenticator, account_store, locked>>

\* assert_credentials_match: on a mismatch IncorrectCredentialsException is
\* raised with a message, and with no account
RealmVerify(c) ==
    /\ calls[c].pc = "verify"
    /\ LET call == calls[c]
           r == CurrentRealm(call)
       IN \E none \in MatchOfNone :
            LET verdict == IF call.account = NoAccount
                           THEN none
                           ELSE IF CredentialsMatch(call.token, call.account)
                                THEN "True" ELSE "False"
                tr == Append(call.trace,
                             Effect("credentials_match", verdict,
                                    call.account.account_id.primary_identifier, r))
            IN calls' = [calls EXCEPT ![c] =
                 IF verdict = "True"
                 THEN [call EXCEPT !.pc = "clear", !.trace = tr]
                 ELSE IF verdict = "False"
                 THEN RealmEnded([call EXCEPT !.trace = tr],
                                 Outcome("raise", "IncorrectCredentialsException",
                                         NoAccount))
                 ELSE RealmEnded([call EXCEPT !.trace = tr],
                                 Outcome("raise", verdict, NoAccount))]
    /\ UNCHANGED <<bystanders, continuations, breached, session, settings,
                   authenticator, account_store, credentials_cache,
                   locked>>

\* authenticate_account, lines 230-231: the cache entry of the token's
\* identifier is cleared and the account returned; with no cache handler
\* the call on None raises AttributeError
RealmClear(c) ==
    /\ calls[c].pc = "clear"
    /\ LET call == calls[c]
           r == CurrentRealm(call)
           cch == realms[r].credentials_cache_handler
       IN /\ calls' = [calls EXCEPT ![c] =
               IF ~cch
               THEN RealmEnded(call, Outcome("raise", "AttributeError", NoAccount))
               ELSE RealmEnded(
                      [call EXCEPT !.trace =
                          Append(@, Effect("clear_cached_credentials", "",
                                           call.token.identifier, r))],
                      Outcome("return", "none", call.account))]
          /\ credentials_cache' =
               IF ~cch
               THEN credentials_cache
               ELSE [credentials_cache EXCEPT ![r] =
                        ClearCachedCredentials(@, call.token.identifier)]
    /\ UNCHANGED <<bystanders, continuations, breached, session, settings,
                   authenticator, account_store, locked>>


(***************************************************************************)
(* DefaultAuthenticator.authenticate_account, second part: the tier check, *)
(* the handlers of AdditionalAuthenticationRequired and of                 *)
(* IncorrectCredentialsException, the notifications and the lock policy.   *)
(***************************************************************************)

\* how the rest of a call went: the side effects so far, the lock_account
\* calls made, and the result (NoResult: it went on normally)
Fin(tr, locks, result) ==
    [trace |-> tr, locks |-> locks, result |-> result]

\* what the handler gets for exc.account, and then fails on, when the
\* exception was raised with a message only: the attribute is missing, or
\* what is there is no account
AccountOfException ==
    {"AttributeError", "TypeError"}

\* a faulty variant of TierExceeded: an account with as many entries as the
\* token's tier is taken to need another tier
TierExceededAtTier(account, tok) ==
    Cardinality(DOMAIN account.authc_info) >= TIER(tok.class)

\* a second faulty variant of TierExceeded: the account is compared with the tier
\* after the token's
TierExceededPastNext(account, tok) ==
    Cardinality(DOMAIN account.authc_info) > TIER(tok.class) + 1

\* line 258: len(account['authc_info']) > authc_token.TIER
TierExceeded(account, tok) ==
    Cardinality(DOMAIN account.authc_info) > TIER(tok.class)

\* line 328-329: a limit is configured and the failures exceed it
LimitBreached(failed_attempts) ==
    /\ locking_limit # 0
    /\ Len(failed_attempts) > locking_limit

\* validate_locked(authc_token, account)
ValidateLocked(tok, account, tr, err) ==
    IF account = NoAccount
    THEN Fin(tr, {}, Raise(err))
    ELSE IF tok.class \notin DOMAIN account.authc_info
    THEN Fin(tr, {}, Raise("KeyError"))
    ELSE IF LimitBreached(account.authc_info[tok.class].failed_attempts)
    THEN IF locking_realm = 0
         THEN Fin(tr, {}, Raise("AttributeError"))
         ELSE LET id == account.account_id.primary_identifier
                  tr1 == Append(tr, Effect("lock_account", "", id, locking_realm))
              IN IF event_bus
                 THEN Fin(Append(tr1, Publish("AUTHENTICATION.ACCOUNT_LOCKED", id)),
                          {<<locking_realm, id>>},
                          Raise("LockedAccountException"))
                 ELSE Fin(tr1, {<<locking_realm, id>>},
                          Raise("AuthenticationEventException"))
    ELSE Fin(tr, {}, NoResult)

\* lines 231-234: notify_failure, validate_locked on exc.account, re-raise
OnIncorrectCredentials(tok, exc_account, tr, err) ==
    IF ~event_bus
    THEN Fin(tr, {}, Raise("AuthenticationEventException"))
    ELSE LET tr1 == Append(tr, Publish("AUTHENTICATION.FAILED", tok.identifier))
             v == ValidateLocked(tok, exc_account, tr1, err)
         IN IF v.result = NoResult
            THEN Fin(v.trace, v.locks, Raise("IncorrectCredentialsException"))
            ELSE v

\* lines 257-261 and 223-229: notify_progress in do_authenticate_account,
\* then, in the handler, notify_progress again, the challenge, the raise
OnTierExceeded(tok, account, tr) ==
    IF ~event_bus
    THEN Fin(tr, {}, Raise("AuthenticationEventException"))
    ELSE LET progress == Publish("AUTHENTICATION.PROGRESS", tok.identifier)
             tr2 == Append(Append(tr, progress), progress)
             tr3 == IF mfa_challenger
                    THEN Append(tr2, Effect("send_challenge", "",
                                     account.account_id.primary_identifier, 0))
                    ELSE tr2
         IN Fin(tr3, {},
                Result("raise", "AdditionalAuthenticationRequired",
                       account.account_id))

\* a faulty variant of OnSuccess: without an event bus the notification is
\* dropped and the account identifier returned all the same
OnSuccessDropped(account, tr) ==
    Fin(IF event_bus
        THEN Append(tr, Publish("AUTHENTICATION.SUCCEEDED",
                                account.account_id.primary_identifier))
        ELSE tr,
        {}, Result("return", "none", account.account_id))

\* lines 236-238: notify_success, return account['account_id']
OnSuccess(account, tr) ==
    IF ~event_bus
    THEN Fin(tr, {}, Raise("AuthenticationEventException"))
    ELSE Fin(Append(tr, Publish("AUTHENTICATION.SUCCEEDED",
                                account.account_id.primary_identifier)),
             {}, Result("return", "none", account.account_id))

\* what authenticate_account makes of the outcome of the realm or of the
\* strategy: subscripting None at line 258 raises TypeError, so the test
\* of line 216 is never reached with None
Authenticated(tok, out, tr, err) ==
    IF out.kind = "raise"
    THEN IF out.exc = "IncorrectCredentialsException"
         THEN OnIncorrectCredentials(tok, out.account, tr, err)
         ELSE Fin(tr, {}, Raise(out.exc))
    ELSE IF out.account = NoAccount
    THEN Fin(tr, {}, Raise("TypeError"))
    ELSE IF TierExceeded(out.account, tok)
    THEN OnTierExceeded(tok, out.account, tr)
    ELSE OnSuccess(out.account, tr)

\* the failures the strategy may surface once every realm has raised: any
\* of the underlying exceptions ("none": no realm raised)
Surfaced(errors) ==
    IF errors = <<>> THEN {"none"} ELSE {errors[i] : i \in DOMAIN errors}

\* FirstRealmSuccessfulStrategy.execute, after a realm of the attempt has
\* ended: the first realm that returns wins; when every realm has raised,
\* one of the underlying exceptions surfaces; with no realm, None
StrategyOutcome(call, errors, e) ==
    IF call.rout.kind = "return"
    THEN call.rout
    ELSE IF e = "none"
    THEN Outcome("return", "none", NoAccount)
    ELSE Outcome("raise", e, NoAccount)

\* lines 231-233 and 328-329: the call failed on a verifier mismatch and
\* got past notify_failure, for an account whose failures for the token's
\* type exceed the locking limit
Breach(tok, account, out) ==
    IF /\ event_bus
       /\ out.kind = "raise"
       /\ out.exc = "IncorrectCredentialsException"
       /\ account # NoAccount
       /\ tok.class \in DOMAIN account.authc_info
       /\ LimitBreached(account.authc_info[tok.class].failed_attempts)
    THEN {account.account_id.primary_identifier}
    ELSE {}

\* line 229: what the caller of a tier-1 token is handed with
\* AdditionalAuthenticationRequired, to come back with for the next tier
\* ("the security_manager saves subject identifiers")
Continuation(tok, result) ==
    IF /\ result.exc = "AdditionalAuthenticationRequired"
       /\ TIER(tok.class) = UsernamePasswordTokenTIER
    THEN {result.account_id.primary_identifier}
    ELSE {}

\* the realm has ended: the authenticator (single realm) or the strategy
\* (several) takes its outcome, and the call goes on to the next realm or
\* ends
Complete(c) ==
    /\ calls[c].pc = "realm_done"
    /\ LET call == calls[c]
           errors == IF call.rout.kind = "raise"
                     THEN Append(call.errors, call.rout.exc)
                     ELSE call.errors
           next == /\ call.multi
                   /\ call.rout.kind = "raise"
                   /\ call.ri < Len(call.todo)
       IN \E err \in AccountOfException, e \in Surfaced(errors) :
            LET out == IF call.multi THEN StrategyOutcome(call, errors, e)
                                     ELSE call.rout
                fin == Authenticated(call.token, out, call.trace, err)
            IN /\ calls' = [calls EXCEPT ![c] =
                    IF next
                    THEN EnterRealm([call EXCEPT !.errors = errors], call.ri + 1)
                    ELSE Ended([call EXCEPT !.trace = fin.trace], out, fin.result)]
               /\ locked' = IF next THEN locked ELSE locked \cup fin.locks
               /\ continuations' =
                    IF next THEN continuations
                    ELSE continuations \cup Continuation(call.token, fin.result)
               /\ breached' =
                    IF next THEN breached
                    ELSE breached \cup Breach(call.token, call.account, out)
    /\ UNCHANGED <<bystanders, session, settings,
                   authenticator, account_store, credentials_cache>>

\* the caller has its result, and may call again
Return(c) ==
    /\ calls[c].pc = "done"
    /\ calls' = [calls EXCEPT ![c] = IdleCall]
    /\ UNCHANGED <<bystanders, continuations, breached, session, settings,
                   authenticator, account_store, credentials_cache,
                   locked>>

(***************************************************************************)
(* DefaultAuthenticator.clear_cache, the handler registered for            *)
(* SESSION.EXPIRE and SESSION.STOP.                                        *)
(***************************************************************************)

\* the first realm at which clear_cache stops: it has an identifier in the
\* event's collection and no credentials cache handler, so that
\* realm.clear_cached_credentials raises AttributeError, which the
\* handler catches outside its loop
FirstWithoutHandler(items) ==
    LET broken == {r \in 1..Len(realms) :
                      /\ items.identifiers[r] # NoId
                      /\ ~realms[r].credentials_cache_handler}
    IN IF broken = {}
       THEN Len(realms) + 1
       ELSE CHOOSE r \in broken : \A q \in broken : r <= q

\* clear_cache(items): realm by realm, the entry of the identifier the
\* event's collection holds for that realm is cleared
ClearCache(cache, items) ==
    [r \in DOMAIN cache |->
        IF r < FirstWithoutHandler(items) /\ items.identifiers[r] # NoId
        THEN ClearCachedCredentials(cache[r], items.identifiers[r])
        ELSE cache[r]]

\* a SESSION.EXPIRE or SESSION.STOP event is put on the event bus, between
\* two requests of an authenticator that has its realms (sessions come
\* of authenticated subjects): the bus calls clear_cache when it is
\* registered for the topic
SessionEvent(topic, identifiers) ==
    /\ event_bus
    /\ initialised
    /\ AllIdle
    /\ session' = SessionItems(topic, identifiers)
    /\ credentials_cache' =
          IF topic \in registered
          THEN ClearCache(credentials_cache, SessionItems(topic, identifiers))
          ELSE credentials_cache
    /\ UNCHANGED <<bystanders, continuations, breached, settings, authenticator,
                   account_store, locked, calls>>

(***************************************************************************)
(* The environment: the cache store expires entries (TTL).  Nothing in     *)
(* the realm or the authenticator writes the account store; what it holds  *)
(* is chosen in Init.                                                      *)
(***************************************************************************)

CacheExpire(r, id) ==
    /\ credentials_cache[r][id] # NoAccount
    /\ credentials_cache' = [credentials_cache EXCEPT ![r][id] = NoAccount]
    /\ UNCHANGED <<bystanders, continuations, breached, session, settings,
                   authenticator, account_store, locked, calls>>

IdentifierCollections ==
    {NoIdentifiers} \cup {IdentifierCollection(id) : id \in Identifiers}

SessionTopics ==
    {"SESSION.EXPIRE", "SESSION.STOP"}

\* the identifier collections of a session: per realm, the identifier
\* from_source(realm.name) gives, or None
SessionIdentifiers ==
    [1..Len(realms) -> Identifiers \cup {NoId}]

Next ==
    \/ SetEventBus
    \/ \E rs \in RealmSetups : InitRealms(rs)
    \/ \E c \in SeqCallers, identifiers \in IdentifierCollections, tok \in Tokens :
          Start(c, identifiers, tok)
    \/ \E c \in SeqCallers : RealmGetCached(c)
    \/ \E c \in SeqCallers : RealmGetAccount(c)
    \/ \E c \in SeqCallers : RealmCacheCredentials(c)
    \/ \E c \in SeqCallers : RealmVerify(c)
    \/ \E c \in SeqCallers : RealmClear(c)
    \/ \E c \in SeqCallers : Complete(c)
    \/ \E c \in SeqCallers : Return(c)
    \/ \E r \in DOMAIN credentials_cache, id \in Identifiers : CacheExpire(r, id)
    \/ \E topic \in SessionTopics, identifiers \in SessionIdentifiers :
          SessionEvent(topic, identifiers)

Spec ==
    Init /\ [][Next]_vars

(***************************************************************************)
(* Concurrent requests: two handlers call authenticate_account at the same *)
(* time on one realm with a credentials cache handler and an account       *)
(* store, each with a token that carries the identity.  The steps of the   *)
(* two calls interleave freely; each step is one call to the cache, the    *)
(* store or the verifier, or the authenticator's own handling.             *)
(***************************************************************************)

\* one realm, with a cache handler and an account store
ConcurrentRealmSetups ==
    {<<r>> : r \in {c \in RealmConfigs :
                       c.credentials_cache_handler /\ c.account_store}}

\* the tokens that carry the identity themselves
ConcurrentTokens ==
    {tok \in Tokens : tok.identifier # NoId}

ConcurrentNext ==
    \/ SetEventBus
    \/ \E rs \in ConcurrentRealmSetups : InitRealms(rs)
    \/ \E c \in Callers, tok \in ConcurrentTokens : Start(c, NoIdentifiers, tok)
    \/ \E c \in Callers : RealmGetCached(c)
    \/ \E c \in Callers : RealmGetAccount(c)
    \/ \E c \in Callers : RealmCacheCredentials(c)
    \/ \E c \in Callers : RealmVerify(c)
    \/ \E c \in Callers : RealmClear(c)
    \/ \E c \in Callers : Complete(c)
    \/ \E c \in Callers : Return(c)

ConcurrentSpec ==
    Init /\ [][ConcurrentNext]_vars


(***************************************************************************)
(* Token objects: UsernamePasswordToken.__init__ and clear(),              *)
(* TOTPToken.__init__.  A constructor that raises leaves no object; the    *)
(* record keeps what it was given and what it raised.                      *)
(***************************************************************************)

\* how a property setter or clear() ended: what the attribute holds and
\* what was raised
Stored(value, raised) ==
    [value |-> value, raised |-> raised]

\* `not identifier`: None and '' are false
Falsy(username) ==
    username \in {NoId, ""}

\* UsernamePasswordToken.identifier (setter)
SetIdentifier(username) ==
    IF Falsy(username)
    THEN Stored(NoId, "InvalidTokenException")
    ELSE Stored(username, "none")

\* UsernamePasswordToken.credentials (setter): `if bytes`, then
\* `if str ... else raise`: bytes are stored and then refused, a str is
\* stored as bytes(credentials, 'utf-8'), an immutable copy
SetCredentials(credentials) ==
    LET held == IF credentials.type = "bytes" THEN credentials ELSE NoneValue
    IN IF credentials.type = "str"
       THEN Stored(Buffer("bytes", credentials.bytes), "none")
       ELSE Stored(held, "InvalidTokenException")

\* UsernamePasswordToken(username, password)
NewUsernamePasswordToken(username, password) ==
    /\ token = NoTokenObject
    /\ LET id == SetIdentifier(username)
           cred == SetCredentials(password)
       IN token' =
            IF id.raised # "none"
            THEN TokenObject("UsernamePasswordToken", username, password,
                             "failed", NoId, NoneValue, 0, id.raised)
            ELSE IF cred.raised # "none"
            THEN TokenObject("UsernamePasswordToken", username, password,
                             "failed", id.value, cred.value, 0, cred.raised)
            ELSE TokenObject("UsernamePasswordToken", username, password,
                             "constructed", id.value, cred.value, 0, "none")
    /\ UNCHANGED <<authc_vars, authz_vars>>

\* clear(), lines 95-101: every index of a non-empty buffer is assigned 0;
\* item assignment on bytes raises TypeError at the first index, which
\* becomes InvalidTokenException
ClearCredentials(credentials) ==
    IF Len(credentials.bytes) = 0
    THEN Stored(credentials, "none")
    ELSE IF credentials.type = "bytearray"
    THEN Stored(Buffer("bytearray",
                       [i \in 1..Len(credentials.bytes) |-> 0]), "none")
    ELSE Stored(credentials, "InvalidTokenException")

\* UsernamePasswordToken.clear()
ClearToken ==
    /\ token.class = "UsernamePasswordToken"
    /\ token.state = "constructed"
    /\ token.clears < MaxClears
    /\ LET cleared == ClearCredentials(token.credentials)
       IN token' = [token EXCEPT !.identifier = NoId,
                                 !.credentials = cleared.value,
                                 !.clears = @ + 1,
                                 !.raised = cleared.raised]
    /\ UNCHANGED <<authc_vars, authz_vars>>

\* a variant of TOTPInRange that lets the ceiling itself through
TOTPInRangeClosed(credentials) ==
    /\ credentials.halves >= 2 * TOTPFloor
    /\ credentials.halves <= 2 * TOTPCeiling

\* line 130: credentials >= 100000 and credentials < 1000000
TOTPInRange(credentials) ==
    /\ credentials.halves >= 2 * TOTPFloor
    /\ credentials.halves < 2 * TOTPCeiling

\* TOTPToken.credentials (setter): the comparison raises TypeError for a
\* value that does not order against an int, the assert raises
\* AssertionError; both become InvalidTokenException
SetTOTPCredentials(credentials) ==
    IF credentials.type \notin {"int", "float"}
    THEN Stored(NoneValue, "InvalidTokenException")
    ELSE IF TOTPInRange(credentials)
    THEN Stored(credentials, "none")
    ELSE Stored(NoneValue, "InvalidTokenException")

\* TOTPToken(totp_token)
NewTOTPToken(totp_token) ==
    /\ token = NoTokenObject
    /\ LET cred == SetTOTPCredentials(totp_token)
       IN token' = TokenObject("TOTPToken", NoId, totp_token,
                               IF cred.raised = "none" THEN "constructed"
                                                       ELSE "failed",
                               NoId, cred.value, 0, cred.raised)
    /\ UNCHANGED <<authc_vars, authz_vars>>

\* the token object goes out of use
DropToken ==
    /\ token # NoTokenObject
    /\ token' = NoTokenObject
    /\ UNCHANGED <<authc_vars, authz_vars>>

\* an authenticator nothing is asked of
AuthenticatorAside ==
    /\ account_lock_threshold = 0
    /\ mfa_challenger = FALSE
    /\ account_store = [id \in Identifiers |-> NoAccount]
    /\ AuthenticatorConstructed

TokenInit ==
    /\ AuthenticatorAside
    /\ NoTokenYet
    /\ NoAuthzYet

TokenNext ==
    \/ \E username \in Usernames, password \in Passwords :
          NewUsernamePasswordToken(username, password)
    \/ ClearToken
    \/ \E totp_token \in TOTPInputs : NewTOTPToken(totp_token)
    \/ DropToken

TokenSpec ==
    TokenInit /\ [][TokenNext]_vars

(***************************************************************************)
(* AccountStoreRealm.get_authorization_info and                            *)
(* clear_cached_authorization_info, on one realm.                          *)
(***************************************************************************)

\* lines 274-275, 279-280, 301-302: the message is built with
\* "..." + identifiers + "]", which raises TypeError for identifiers that
\* are not a str
Concatenates(identifiers) ==
    identifiers.kind = "str"

\* line 299, `if (authz_info and ach)`: the truth value of the info
\* object; one with no roles and no permissions may count as false
Truthy(info, empty_counts) ==
    /\ info # NoAuthzInfo
    /\ \/ info.roles # {}
       \/ info.permissions # {}
       \/ empty_counts

\* lines 286-295: the store's answer made into IndexedAuthorizationInfo;
\* None has no roles attribute, the AttributeError is caught, no info
FromStore(account) ==
    IF account = NoAuthzInfo
    THEN NoAuthzInfo
    ELSE AuthzInfo(account.roles, account.permissions)

\* get_authorization_info(identifiers)
GetAuthorizationInfo(identifiers) ==
    /\ \E empty_counts \in BOOLEAN :
         LET id == identifiers.primary_identifier
             ach == authorization_cache_handler
             held == Held(authorization_cache[id], authz_store.info[id])
             cached == IF ach THEN authorization_cache[id] ELSE NoAuthzInfo
             fetched == FromStore(authz_store.info[id])
             call(kind, exc, info, wrote) ==
                 AuthzCall("get_authorization_info", identifiers, held,
                           kind, exc, info, wrote)
         IN IF ach /\ ~Concatenates(identifiers)
            THEN /\ authz_call' = call("raise", "TypeError", NoAuthzInfo, FALSE)
                 /\ UNCHANGED authorization_cache
            ELSE IF cached # NoAuthzInfo
            THEN /\ authz_call' = call("return", "none", cached, FALSE)
                 /\ UNCHANGED authorization_cache
            ELSE IF ~authz_store.bound
            THEN /\ authz_call' = call("raise", "AttributeError", NoAuthzInfo,
                                       FALSE)
                 /\ UNCHANGED authorization_cache
            ELSE IF Truthy(fetched, empty_counts) /\ ach
            THEN /\ authz_call' = call("return", "none", fetched, TRUE)
                 /\ authorization_cache' =
                       [authorization_cache EXCEPT ![id] = fetched]
            ELSE /\ authz_call' = call("return", "none", fetched, FALSE)
                 /\ UNCHANGED authorization_cache
    /\ UNCHANGED <<authorization_cache_handler, authz_store, authc_vars,
                   token_vars>>

\* clear_cached_authorization_info(identifiers): with no handler bound the
\* call on None raises AttributeError
ClearCachedAuthorizationInfo(identifiers) ==
    /\ LET id == identifiers.primary_identifier
           held == Held(authorization_cache[id], authz_store.info[id])
       IN IF authorization_cache_handler
          THEN /\ authz_call' =
                     AuthzCall("clear_cached_authorization_info", identifiers,
                               held, "return", "none", NoAuthzInfo, TRUE)
               /\ authorization_cache' =
                     [authorization_cache EXCEPT ![id] = NoAuthzInfo]
          ELSE /\ authz_call' =
                     AuthzCall("clear_cached_authorization_info", identifiers,
                               held, "raise", "AttributeError", NoAuthzInfo,
                               FALSE)
               /\ UNCHANGED authorization_cache
    /\ UNCHANGED <<authorization_cache_handler, authz_store, authc_vars,
                   token_vars>>

\* the account store's authorization data for an identifier changes
AuthzStoreUpdate(id, info) ==
    /\ authz_store.bound
    /\ authz_store.info[id] # info
    /\ authz_store' = [authz_store EXCEPT !.info[id] = info]
    /\ UNCHANGED <<authorization_cache_handler, authorization_cache,
                   authz_call, authc_vars, token_vars>>

(***************************************************************************)
(* AccountStoreRealm.is_permitted and has_role.  Both are generator        *)
(* functions: the call makes a generator and runs none of the body; the    *)
(* first next() runs get_authorization_info and then the verifier up to    *)
(* its first pair, each later next() runs the verifier to its next pair.   *)
(***************************************************************************)

\* permission_verifier.is_permitted(authz_info, permission_s) and
\* role_verifier.has_role(authz_info, roleid_s): whether the info grants
\* the item
Verdict(op, info, item) ==
    IF op = "is_permitted" THEN item \in info.permissions
                           ELSE item \in info.roles

\* what a verifier may do with None for the info: fail on the first item,
\* or grant nothing
VerifierOfNone ==
    {"AttributeError", "False"}

\* `yield from` the verifier, one next(): the pair of the next item asked
\* about, or the end of the sequence
Advance(q, none) ==
    IF Len(q.yielded) = Len(q.requested)
    THEN [q EXCEPT !.state = "exhausted"]
    ELSE LET item == q.requested[Len(q.yielded) + 1]
         IN IF q.fetch.info = NoAuthzInfo
            THEN IF none = "AttributeError"
                 THEN [q EXCEPT !.state = "raised", !.exc = none]
                 ELSE [q EXCEPT !.yielded = Append(@, <<item, FALSE>>)]
            ELSE [q EXCEPT !.yielded =
                     Append(@, <<item, Verdict(q.op, q.fetch.info, item)>>)]

\* is_permitted(identifiers, permission_s), the call: a generator
IsPermitted(identifiers, permission_s) ==
    /\ authz_query' = AuthzQuery("is_permitted", identifiers, permission_s,
                                 "created", 0, NoAuthzCall, <<>>, "none")
    /\ UNCHANGED <<authorization_cache_handler, authorization_cache,
                   authz_store, authz_call, authc_vars, token_vars>>

\* has_role(identifiers, roleid_s), the call: a generator
HasRole(identifiers, roleid_s) ==
    /\ authz_query' = AuthzQuery("has_role", identifiers, roleid_s,
                                 "created", 0, NoAuthzCall, <<>>, "none")
    /\ UNCHANGED <<authorization_cache_handler, authorization_cache,
                   authz_store, authz_call, authc_vars, token_vars>>

\* the first next(): get_authorization_info(identifiers), whose exception
\* ends the generator, then the verifier's first pair
FirstElement ==
    /\ authz_query.state = "created"
    /\ GetAuthorizationInfo(authz_query.identifiers)
    /\ \E none \in VerifierOfNone :
          LET q == [authz_query EXCEPT !.fetches = @ + 1, !.fetch = authz_call']
          IN authz_query' =
                IF authz_call'.kind = "raise"
                THEN [q EXCEPT !.state = "raised", !.exc = authz_call'.exc]
                ELSE Advance([q EXCEPT !.state = "running"], none)

\* a later next(): the verifier's next pair, from the info fetched at the
\* first
NextElement ==
    /\ authz_query.state = "running"
    /\ \E none \in VerifierOfNone :
          authz_query' = Advance(authz_query, none)
    /\ UNCHANGED <<authorization_cache_handler, authorization_cache,
                   authz_store, authz_call, authc_vars, token_vars>>

\* a realm with or without an authorization cache handler and an account
\* store, the store with or without info for the identifier
AuthzInit ==
    /\ AuthenticatorAside
    /\ NoTokenYet
    /\ authorization_cache_handler \in BOOLEAN
    /\ authorization_cache = [id \in Identifiers |-> NoAuthzInfo]
    /\ \E bound \in BOOLEAN :
          authz_store = AuthzStore(bound, [id \in Identifiers |-> NoAuthzInfo])
    /\ authz_call = NoAuthzCall
    /\ authz_query = NoAuthzQuery

\* the identifiers the realm is asked about: a plain str, or an identifier
\* collection
AuthzArguments ==
    {AuthzIdentifiers(kind, id) :
        kind \in {"str", "collection"}, id \in Identifiers}

AuthzNext ==
    \/ \E identifiers \in AuthzArguments :
          GetAuthorizationInfo(identifiers) /\ UNCHANGED authz_query
    \/ \E identifiers \in AuthzArguments :
          ClearCachedAuthorizationInfo(identifiers) /\ UNCHANGED authz_query
    \/ \E id \in Identifiers, info \in AuthzInfos \cup {NoAuthzInfo} :
          AuthzStoreUpdate(id, info) /\ UNCHANGED authz_query

AuthzSpec ==
    AuthzInit /\ [][AuthzNext]_vars

\* what the store is given to hold while generators are iterated: nothing,
\* or one of two infos that differ on every role and permission
QueryInfos ==
    {NoAuthzInfo, AuthzInfo({"admin"}, {"read"}), AuthzInfo({}, {"write"})}

\* generators of is_permitted and has_role, iterated one next() at a time
\* while the store's data changes and the cache is cleared
QueryNext ==
    \/ \E identifiers \in AuthzArguments, permission_s \in PermissionQueries :
          IsPermitted(identifiers, permission_s)
    \/ \E identifiers \in AuthzArguments, roleid_s \in RoleQueries :
          HasRole(identifiers, roleid_s)
    \/ FirstElement
    \/ NextElement
    \/ \E identifiers \in AuthzArguments :
          ClearCachedAuthorizationInfo(identifiers) /\ UNCHANGED authz_query
    \/ \E id \in Identifiers, info \in QueryInfos :
          AuthzStoreUpdate(id, info) /\ UNCHANGED authz_query

QuerySpec ==
    AuthzInit /\ [][QueryNext]_vars

(***************************************************************************)
(* What the claims speak of.                                               *)
(***************************************************************************)

\* the events a call published, in order
Events(tr) ==
    SelectSeq(tr, LAMBDA e : e.op = "publish")

HasEvent(tr, topic) ==
    \E i \in DOMAIN tr : tr[i].op = "publish" /\ tr[i].topic = topic

HasEffect(tr, op, topic) ==
    \E i \in DOMAIN tr : tr[i].op = op /\ tr[i].topic = topic

\* what the authenticator itself did, in order: the topics it published,
\* lock_account, send_challenge
AuthenticatorSteps(tr) ==
    LET own == SelectSeq(tr, LAMBDA e :
                   e.op \in {"publish", "lock_account", "send_challenge"})
    IN [i \in DOMAIN own |->
           IF own[i].op = "publish" THEN own[i].topic ELSE own[i].op]

\* the call has ended and its realm (or the strategy) returned an account
\* whose credentials match the token's
ReturnedMatching(call) ==
    /\ call.pc = "done"
    /\ call.rout.kind = "return"
    /\ call.rout.account # NoAccount
    /\ CredentialsMatch(call.token, call.rout.account)

\* the call has ended, and the verifier reported a mismatch of the token
\* against the account fetched for it
Mismatched(call) ==
    /\ call.pc = "done"
    /\ call.rout.kind = "raise"
    /\ call.rout.exc = "IncorrectCredentialsException"
    /\ call.account # NoAccount
    /\ call.token.class \in DOMAIN call.account.authc_info

\* the failures on record for the token's type in the fetched account
FailuresOnRecord(call) ==
    Len(call.account.authc_info[call.token.class].failed_attempts)

(***************************************************************************)
(* C1.  A tier-1 token with an identifier, matching credentials, no further *)
(* tier on the account: the call returns the account's identifier          *)
(* collection and publishes SUCCEEDED once and nothing else.               *)
(***************************************************************************)

TierOneCase(call) ==
    /\ ReturnedMatching(call)
    /\ TIER(call.submitted.class) = 1
    /\ call.submitted.identifier # NoId
    /\ Cardinality(DOMAIN call.rout.account.authc_info)
          <= TIER(call.submitted.class)

TierOneSucceeds(call) ==
    /\ call.result = Result("return", "none", call.rout.account.account_id)
    /\ Events(call.trace) =
          <<Publish("AUTHENTICATION.SUCCEEDED",
                    call.rout.account.account_id.primary_identifier)>>

\* C1 as stated: every tier-1 token with an identifier whose realm returns
\* a matching account with no more authc_info entries than the token's
\* TIER ends in the return of that account's identifier collection and in
\* exactly one SUCCEEDED event, no other event.
C1_SuccessWhateverTheBus ==
    \A c \in Callers : TierOneCase(calls[c]) => TierOneSucceeds(calls[c])

\* C1 as amended: the same, when an event bus is attached to the
\* authenticator.
C1_SuccessWithEventBus ==
    \A c \in Callers :
        (TierOneCase(calls[c]) /\ event_bus) => TierOneSucceeds(calls[c])

C1_Witness ==
    \E c \in Callers :
        /\ TierOneCase(calls[c])
        /\ event_bus
        /\ calls[c].result.kind = "return"

(***************************************************************************)
(* C2.  Matching credentials, more authc_info entries than the token's     *)
(* TIER: AdditionalAuthenticationRequired with the account identifier,     *)
(* PROGRESS published, SUCCEEDED not.                                      *)
(***************************************************************************)

EscalationCase(call) ==
    /\ ReturnedMatching(call)
    /\ Cardinality(DOMAIN call.rout.account.authc_info) > TIER(call.token.class)

Escalates(call) ==
    /\ call.result = Result("raise", "AdditionalAuthenticationRequired",
                            call.rout.account.account_id)
    /\ HasEvent(call.trace, "AUTHENTICATION.PROGRESS")
    /\ ~HasEvent(call.trace, "AUTHENTICATION.SUCCEEDED")

\* C2 as stated: every call whose realm returns a matching account with
\* more authc_info entries than the token's TIER raises
\* AdditionalAuthenticationRequired carrying the account identifier, with
\* PROGRESS published before the raise and no SUCCEEDED.
C2_EscalationWhateverTheBus ==
    \A c \in Callers : EscalationCase(calls[c]) => Escalates(calls[c])

\* C2 as amended: the same, when an event bus is attached to the
\* authenticator.
C2_EscalationWithEventBus ==
    \A c \in Callers :
        (EscalationCase(calls[c]) /\ event_bus) => Escalates(calls[c])

C2_Witness ==
    \E c \in Callers :
        /\ EscalationCase(calls[c])
        /\ event_bus
        /\ calls[c].result.exc = "AdditionalAuthenticationRequired"

(***************************************************************************)
(* C3.  No identifier on the token and no identifier collection.           *)
(***************************************************************************)

OutOfSequence(call) ==
    /\ call.pc # "idle"
    /\ call.submitted.identifier = NoId
    /\ call.identifiers = NoIdentifiers

\* C3: a call with a token that has no identifier and with no identifier
\* collection ends in InvalidAuthenticationSequenceException, with no
\* realm consulted and no event published: it is never seen at a realm's
\* step, and its record of side effects is empty.
C3_OutOfSequenceRaisesFirst ==
    \A c \in Callers :
        OutOfSequence(calls[c]) =>
            /\ calls[c].pc = "done"
            /\ calls[c].result = Raise("InvalidAuthenticationSequenceException")
            /\ calls[c].trace = <<>>

C3_Witness ==
    \E c \in Callers :
        /\ OutOfSequence(calls[c])
        /\ calls[c].submitted.class = "TOTPToken"
        /\ initialised
        /\ Len(realms) > 0
        /\ event_bus
        /\ calls[c].result = Raise("InvalidAuthenticationSequenceException")


(***************************************************************************)
(* C4, C5.  The lock policy on a verifier mismatch.                        *)
(***************************************************************************)

\* a mismatch with everything the lock policy needs in place: a threshold
\* is configured, a locking realm was found, an event bus is attached
MismatchUnderLockPolicy(call) ==
    /\ Mismatched(call)
    /\ locking_limit # 0
    /\ locking_realm # 0
    /\ event_bus

\* C4: with account_lock_threshold configured, a failing attempt for an
\* identity with N failures on record raises LockedAccountException and
\* publishes ACCOUNT_LOCKED when N exceeds the threshold, and raises
\* IncorrectCredentialsException without ACCOUNT_LOCKED when N is at or
\* below it, whether the account came from the store or from the cache.
C4_LockAfterThreshold ==
    \A c \in Callers :
        MismatchUnderLockPolicy(calls[c]) =>
            IF FailuresOnRecord(calls[c]) > locking_limit
            THEN /\ calls[c].result = Raise("LockedAccountException")
                 /\ HasEvent(calls[c].trace, "AUTHENTICATION.ACCOUNT_LOCKED")
            ELSE /\ calls[c].result = Raise("IncorrectCredentialsException")
                 /\ ~HasEvent(calls[c].trace, "AUTHENTICATION.ACCOUNT_LOCKED")

\* C5: with a single realm, locking_limit = 3, a verifier mismatch and an
\* account whose failed_attempts for the token's type has length 3, the
\* call raises LockedAccountException.
C5_LockedAtThree ==
    \A c \in Callers :
        ( /\ MismatchUnderLockPolicy(calls[c])
          /\ Len(realms) = 1
          /\ locking_limit = 3
          /\ FailuresOnRecord(calls[c]) = 3 )
        => calls[c].result = Raise("LockedAccountException")

(***************************************************************************)
(* C6.  The credentials cache after a successful call.                     *)
(***************************************************************************)

Succeeded(call) ==
    /\ call.pc = "done"
    /\ call.result.kind = "return"

C7_AuthenticatesWithoutCache ==
    \A c \in Callers :
        ( /\ calls[c].pc = "done"
          /\ Len(realms) = 1
          /\ calls[c].todo # <<>>
          /\ ~realms[1].credentials_cache_handler
          /\ realms[1].account_store
          /\ calls[c].account # NoAccount
          /\ CredentialsMatch(calls[c].token, calls[c].account) )
        => /\ calls[c].rout = Outcome("return", "none", calls[c].account)
           /\ calls[c].result.exc # "AttributeError"

(***************************************************************************)
(* C8.  No realm produces an account.                                      *)
(***************************************************************************)

\* every realm the call consulted missed its cache, if it has one, and
\* got nothing from the account store
NoAccountAnywhere(call) ==
    /\ call.pc = "done"
    /\ HasEffect(call.trace, "get_account", "absent")
    /\ ~HasEffect(call.trace, "get_account", "found")
    /\ ~HasEffect(call.trace, "get_cached_credentials", "hit")

\* C8: when no realm produces an account for the token, the call fails
\* with UnknownAccountException and publishes no SUCCEEDED event.
C8_UnknownAccount ==
    \A c \in Callers :
        NoAccountAnywhere(calls[c]) =>
            /\ calls[c].result = Raise("UnknownAccountException")
            /\ ~HasEvent(calls[c].trace, "AUTHENTICATION.SUCCEEDED")

(***************************************************************************)
(* C9, C10.  What a verifier mismatch carries, and the order of what       *)
(* follows it.                                                             *)
(***************************************************************************)

\* C9: on a verifier mismatch the realm raises
\* IncorrectCredentialsException carrying the account fetched for the
\* token, and the call ends in IncorrectCredentialsException or
\* LockedAccountException, in no other error.
C9_MismatchCarriesAccount ==
    \A c \in Callers :
        (Mismatched(calls[c]) /\ event_bus) =>
            /\ calls[c].rout.account = calls[c].account
            /\ calls[c].result.exc \in {"IncorrectCredentialsException",
                                        "LockedAccountException"}

\* C10: on a verifier mismatch FAILED is published first; when the
\* threshold is breached lock_account is invoked on the locking realm,
\* then ACCOUNT_LOCKED is published, then LockedAccountException is
\* raised; otherwise IncorrectCredentialsException is re-raised after
\* FAILED.
C10_MismatchOrder ==
    \A c \in Callers :
        (Mismatched(calls[c]) /\ event_bus) =>
            IF /\ locking_limit # 0
               /\ locking_realm # 0
               /\ FailuresOnRecord(calls[c]) > locking_limit
            THEN /\ AuthenticatorSteps(calls[c].trace) =
                       <<"AUTHENTICATION.FAILED", "lock_account",
                         "AUTHENTICATION.ACCOUNT_LOCKED">>
                 /\ calls[c].result = Raise("LockedAccountException")
            ELSE /\ AuthenticatorSteps(calls[c].trace) =
                       <<"AUTHENTICATION.FAILED">>
                 /\ calls[c].result = Raise("IncorrectCredentialsException")

(***************************************************************************)
(* C11.  An identity whose failures went past the locking limit.           *)
(***************************************************************************)

C12_NoTierBypass ==
    \A c \in Callers :
        ( /\ Succeeded(calls[c])
          /\ TIER(calls[c].submitted.class) = TOTPTokenTIER )
        => calls[c].token.identifier \in continuations

(***************************************************************************)
(* C13.  UsernamePasswordToken.clear().                                    *)
(***************************************************************************)

\* C13: for every constructed UsernamePasswordToken, after clear() every
\* byte of the credentials is zero, the identifier is None and nothing
\* was raised, and the same after a second clear().
C13_ClearZeroes ==
    ( /\ token.class = "UsernamePasswordToken"
      /\ token.state = "constructed"
      /\ token.clears >= 1 )
    => /\ token.raised = "none"
       /\ token.identifier = NoId
       /\ \A i \in DOMAIN token.credentials.bytes :
             token.credentials.bytes[i] = 0

(***************************************************************************)
(* C14.  The values TOTPToken accepts.                                     *)
(***************************************************************************)

TOTPAttempted ==
    token.class = "TOTPToken"

AtStorelessRealm(call) ==
    /\ call.ri > 0
    /\ ~realms[CurrentRealm(call)].account_store
    /\ ~\E i \in DOMAIN call.trace :
          /\ call.trace[i].realm = CurrentRealm(call)
          /\ call.trace[i].op = "get_cached_credentials"
          /\ call.trace[i].topic = "hit"

\* C15: realm.authenticate_account on a realm with no account store, with
\* no account in the cache (or no cache handler), ends in
\* RealmMisconfiguredException: no store query is made, nothing is
\* verified, nothing is written to that realm's cache, and with a single
\* realm the caller gets RealmMisconfiguredException and no other failure.
C15_Misconfigured ==
    \A c \in Callers :
        LET call == calls[c]
        IN ( /\ AtStorelessRealm(call)
             /\ call.pc \in {"realm_done", "done"}
             /\ call.pc = "done" => ~call.multi )
           => /\ call.rout = Outcome("raise", "RealmMisconfiguredException",
                                      NoAccount)
              /\ ~\E i \in DOMAIN call.trace :
                     /\ call.trace[i].realm = CurrentRealm(call)
                     /\ call.trace[i].op \in {"get_account", "cache_credentials",
                                               "credentials_match"}
              /\ \A id \in Identifiers :
                     credentials_cache[CurrentRealm(call)][id] = NoAccount
              /\ call.pc = "done" =>
                     call.result = Raise("RealmMisconfiguredException")

\* a single realm with a cache handler and no account store has failed a
\* call
C15_Witness ==
    \E c \in Callers :
        /\ AtStorelessRealm(calls[c])
        /\ calls[c].pc = "done"
        /\ ~calls[c].multi
        /\ realms[CurrentRealm(calls[c])].credentials_cache_handler
        /\ HasEffect(calls[c].trace, "get_cached_credentials", "miss")
        /\ calls[c].result = Raise("RealmMisconfiguredException")

(***************************************************************************)
(* C16.  SESSION.EXPIRE and SESSION.STOP.                                  *)
(***************************************************************************)

\* C16: with an event bus attached and the realms initialised, after a
\* SESSION.EXPIRE or SESSION.STOP event no realm for which the event's
\* identifier collection holds an identifier has a credentials cache entry
\* for that identifier.
C16_SessionEventClears ==
    ( /\ session # NoSession
      /\ event_bus
      /\ initialised )
    => \A r \in 1..Len(realms) :
          session.identifiers[r] # NoId =>
              credentials_cache[r][GetCacheKey(session.identifiers[r])]
                  = NoAccount

(***************************************************************************)
(* C17.  The realms a token is taken to.                                   *)
(***************************************************************************)

\* C17: the realms a call takes its token to, the one realm consulted
\* directly or the realms handed to the strategy, all registered the
\* token's class at initialisation.
C17_OnlySupportingRealms ==
    \A c \in Callers :
        \A i \in DOMAIN calls[c].todo :
            calls[c].token.class \in realms[calls[c].todo[i]].supported

(***************************************************************************)
(* C18.  get_authorization_info when nobody has the info.                  *)
(***************************************************************************)

\* C18: when get_authorization_info is called and neither the
\* authorization cache nor the (bound) account store holds info for the
\* identifiers, it returns None, raises nothing and writes nothing to the
\* authorization cache.
C18_AbsenceNotError ==
    ( /\ authz_call.op = "get_authorization_info"
      /\ authz_store.bound
      /\ authz_call.held = Held(NoAuthzInfo, NoAuthzInfo) )
    => /\ authz_call.kind = "return"
       /\ authz_call.info = NoAuthzInfo
       /\ ~authz_call.wrote
       /\ authorization_cache[authz_call.identifiers.primary_identifier]
             = NoAuthzInfo

(***************************************************************************)
(* C19.  A notification without an event bus.                              *)
(***************************************************************************)

\* the call came to a notification: the realm (or the strategy) returned
\* an account (PROGRESS or SUCCEEDED), or IncorrectCredentialsException
\* came up (FAILED)
NotificationAttempted(call) ==
    /\ call.pc = "done"
    /\ \/ call.rout.kind = "return" /\ call.rout.account # NoAccount
       \/ /\ call.rout.kind = "raise"
          /\ call.rout.exc = "IncorrectCredentialsException"

\* C19: with no event bus, a call that comes to a notification ends in
\* AuthenticationEventException, whatever it would have returned or
\* raised otherwise: no account identifier is returned and nothing is
\* published.
C19_NoBusPropagates ==
    \A c \in Callers :
        (NotificationAttempted(calls[c]) /\ ~event_bus) =>
            /\ calls[c].result = Raise("AuthenticationEventException")
            /\ Events(calls[c].trace) = <<>>

\* a call that would have returned the account identifier
C19_Witness ==
    \E c \in Callers :
        /\ NotificationAttempted(calls[c])
        /\ ~event_bus
        /\ calls[c].rout.kind = "return"
        /\ ~TierExceeded(calls[c].rout.account, calls[c].token)
        /\ calls[c].result = Raise("AuthenticationEventException")

(***************************************************************************)
(* C20.  get_credentials: the cache, then the store.                       *)
(***************************************************************************)

\* one step of a call through get_credentials, from pc to pc'
CacheThenStore(c) ==
    LET call == calls[c]
        after == calls'[c]
        r == CurrentRealm(call)
        cch == realms[r].credentials_cache_handler
        key == GetCacheKey(call.token.identifier)
        entry == credentials_cache[r][key]
    IN /\ (call.pc = "get_cached" /\ after.pc = "verify") =>
             /\ cch
             /\ entry # NoAccount
             /\ after.account = entry
             /\ credentials_cache' = credentials_cache
       /\ (call.pc = "get_cached" /\ after.pc # "get_cached") =>
             (after.pc = "get_account" <=> (~cch \/ entry = NoAccount))
       /\ (call.pc = "get_account" /\ after.pc = "cache_credentials") =>
             /\ cch
             /\ after.account = account_store[call.token.identifier]
             /\ after.account # NoAccount
       /\ (call.pc = "get_account" /\ after.pc = "verify") =>
             /\ after.account = account_store[call.token.identifier]
             /\ after.account = NoAccount \/ ~cch
             /\ credentials_cache' = credentials_cache
       /\ (call.pc = "cache_credentials" /\ after.pc = "verify") =>
             /\ after.account = call.account
             /\ credentials_cache'[r][key] = call.account
       /\ (call.pc # "verify" /\ after.pc = "verify") =>
             call.pc \in {"get_cached", "get_account", "cache_credentials"}

\* C20: in every step of get_credentials, the store is asked exactly when
\* the realm has no cache handler or the cache has no account for the
\* token; a cached account is handed to the verifier as it is, with no
\* store query and no cache write; an account fetched from the store is
\* put in the cache under the token's key, when there is a handler,
\* before the verifier is reached; and when the store has no account the
\* cache is left as it is.
C20_CacheThenStore ==
    [][\A c \in Callers : CacheThenStore(c)]_vars

\* a fetched account is in the cache and the verifier is next
C20_Witness ==
    \E c \in Callers :
        /\ calls[c].pc = "verify"
        /\ HasEffect(calls[c].trace, "get_cached_credentials", "miss")
        /\ HasEffect(calls[c].trace, "get_account", "found")
        /\ HasEffect(calls[c].trace, "cache_credentials", "")
        /\ credentials_cache[CurrentRealm(calls[c])]
                            [GetCacheKey(calls[c].token.identifier)]
              = calls[c].account

(***************************************************************************)
(* C21.  The credentials cache after a failed attempt.                     *)
(***************************************************************************)

\* the realm's step in which the call asked the account store
AskedStore(call, r) ==
    \E i \in DOMAIN call.trace :
        call.trace[i].op = "get_account" /\ call.trace[i].realm = r

\* one step of a call, from pc to pc': the steps of a verifier mismatch,
\* and the cache lookup of an attempt that finds an entry
FailureKeepsEntry(c) ==
    LET call == calls[c]
        after == calls'[c]
        r == CurrentRealm(call)
        key == GetCacheKey(call.token.identifier)
        entry == credentials_cache[r][key]
        mismatch(out) == out.kind = "raise"
                         /\ out.exc = "IncorrectCredentialsException"
    IN /\ (call.pc = "verify" /\ after.pc = "realm_done" /\ mismatch(after.rout))
             => credentials_cache' = credentials_cache
       /\ (call.pc = "realm_done" /\ after.pc # "realm_done" /\ mismatch(call.rout))
             => credentials_cache' = credentials_cache
       /\ (call.pc = "done" /\ after.pc # "done" /\ mismatch(call.rout))
             => credentials_cache' = credentials_cache
       /\ ( /\ call.pc = "get_cached"
            /\ after.pc # "get_cached"
            /\ realms[r].credentials_cache_handler
            /\ entry # NoAccount )
             => /\ after.pc = "verify"
                /\ after.account = entry
                /\ ~AskedStore(after, r)
                /\ credentials_cache' = credentials_cache

\* C21: a verifier mismatch leaves the credentials cache as it is, in the
\* realm's step that raises IncorrectCredentialsException, in the
\* authenticator's handling of it and in the return to the caller: the
\* entry written for the token is neither removed nor changed; and an
\* attempt that finds an entry for the token's key is matched against
\* that account, with no query of the account store.
C21_FailureKeepsEntry ==
    [][\A c \in Callers : FailureKeepsEntry(c)]_vars

\* a second failed attempt: it found the entry an earlier mismatch had
\* left, asked no store, failed too, and the entry is still there
C21_Witness ==
    \E c \in Callers :
        /\ Mismatched(calls[c])
        /\ HasEffect(calls[c].trace, "get_cached_credentials", "hit")
        /\ ~AskedStore(calls[c], CurrentRealm(calls[c]))
        /\ calls[c].account # NoAccount
        /\ credentials_cache[CurrentRealm(calls[c])]
                            [GetCacheKey(calls[c].token.identifier)]
              = calls[c].account

(***************************************************************************)
(* C22.  is_permitted and has_role: one fetch, one snapshot, one pair per  *)
(* item.                                                                   *)
(***************************************************************************)

\* the info the cache or the store held for the identifiers when the
\* generator fetched: the cache's, if it had one
HeldInfo(held) ==
    IF held.cache # NoAuthzInfo THEN held.cache ELSE held.store

\* C22: a generator of is_permitted or has_role that was started while the
\* cache or the store held info for the identifiers has fetched exactly
\* once; each pair it has yielded is the item asked about, in the order
\* asked, with the verdict of the info held at the fetch, whatever cache
\* and store hold since; and it ends after one pair per item, without
\* raising.
C22_OneSnapshotPerCall ==
    LET q == authz_query
    IN ( /\ q.state \in {"running", "exhausted", "raised"}
         /\ HeldInfo(q.fetch.held) # NoAuthzInfo )
       => /\ q.fetches = 1
          /\ q.state # "raised"
          /\ Len(q.yielded) <= Len(q.requested)
          /\ \A i \in DOMAIN q.yielded :
                q.yielded[i] = <<q.requested[i],
                                 Verdict(q.op, HeldInfo(q.fetch.held),
                                         q.requested[i])>>
          /\ q.state = "exhausted" => Len(q.yielded) = Len(q.requested)

(***************************************************************************)
(* C23.  The locking realm.                                                *)
(***************************************************************************)

\* the authenticator holds, for its locking realm, the first of its realms
\* with lock capability, and holds one exactly when init_realms has run
\* with a threshold configured and there is such a realm
LockingRealmAsLocated ==
    /\ locking_realm # 0 =>
          /\ locking_realm \in 1..Len(realms)
          /\ realms[locking_realm].locking
          /\ \A j \in 1..(locking_realm - 1) : ~realms[j].locking
    /\ locking_realm # 0 <=>
          /\ initialised
          /\ account_lock_threshold # 0
          /\ \E i \in 1..Len(realms) : realms[i].locking

\* validate_locked, for every account of every identity and every token
\* with that identity: what it locks, it locks at the locking realm
LocksAtLockingRealm ==
    \A id \in Identifiers : \A account \in AccountsOf(id), tok \in Tokens :
        LET v == ValidateLocked(WithIdentifier(IdentifierCollection(id), tok),
                                account, <<>>, "AttributeError")
        IN /\ v.locks \subseteq {<<locking_realm, id>>}
           /\ \A i \in DOMAIN v.trace :
                 v.trace[i].op = "lock_account" =>
                    v.trace[i].realm = locking_realm
           /\ ( /\ locking_realm # 0
                /\ tok.class \in DOMAIN account.authc_info
                /\ LimitBreached(account.authc_info[tok.class].failed_attempts) )
              => v.locks = {<<locking_realm, id>>}

\* once init_realms has run, no step changes the locking realm; and the
\* lock_account calls on record stay those made at it
LockingRealmKept ==
    /\ initialised => locking_realm' = locking_realm
    /\ \A l \in locked' \ locked : l[1] = locking_realm

\* C23: the locking realm is the first realm, in configuration order,
\* with lock capability, set by init_realms and only when
\* account_lock_threshold is set; no step of an authenticate call (nor any
\* other step after init_realms) changes it; and validate_locked sends
\* every lock_account to that realm.
C23_LockingRealmFixed ==
    /\ [](LockingRealmAsLocated /\ LocksAtLockingRealm)
    /\ [][LockingRealmKept]_vars

\* the second of two realms is the locking realm, an attempt has failed
\* on a mismatch, and validate_locked would lock at the second realm
C23_Witness ==
    /\ Len(realms) = 2
    /\ ~realms[1].locking
    /\ locking_realm = 2
    /\ locking_limit = LockThreshold
    /\ \E c \in Callers : Mismatched(calls[c])
    /\ \E id \in Identifiers : \E account \in AccountsOf(id), tok \in Tokens :
          ValidateLocked(WithIdentifier(IdentifierCollection(id), tok),
                         account, <<>>, "AttributeError").locks
             = {<<2, id>>}

(***************************************************************************)
(* C24.  What a call does before AdditionalAuthenticationRequired.         *)
(***************************************************************************)

\* the positions in a call's record of the PROGRESS events and of the
\* challenges sent
ProgressAt(tr) ==
    {i \in DOMAIN tr :
        tr[i].op = "publish" /\ tr[i].topic = "AUTHENTICATION.PROGRESS"}

ChallengeAt(tr) ==
    {i \in DOMAIN tr : tr[i].op = "send_challenge"}

\* C24: a call that has ended in AdditionalAuthenticationRequired has
\* published exactly one PROGRESS event and, with an MFA challenger
\* configured, has sent exactly one challenge, for the account's
\* identifier and after the PROGRESS event.
C24_OneProgressOneChallenge ==
    \A c \in Callers :
        ( /\ calls[c].pc = "done"
          /\ calls[c].result.exc = "AdditionalAuthenticationRequired" )
        => LET tr == calls[c].trace
           IN /\ Cardinality(ProgressAt(tr)) = 1
              /\ mfa_challenger =>
                    /\ Cardinality(ChallengeAt(tr)) = 1
                    /\ \A i \in ChallengeAt(tr) :
                          /\ tr[i].arg =
                                calls[c].result.account_id.primary_identifier
                          /\ \A j \in ProgressAt(tr) : j < i

(***************************************************************************)
(* C25.  The credentials cache after concurrent calls.                     *)
(***************************************************************************)

\* every caller has its result, all for the same identity at the same
\* realm
AllReturned ==
    /\ \A c \in Callers : calls[c].pc = "done" /\ calls[c].ri # 0
    /\ \A c, d \in Callers :
          /\ calls[c].token.identifier = calls[d].token.identifier
          /\ CurrentRealm(calls[c]) = CurrentRealm(calls[d])

\* C25: when concurrent calls for one identity at one realm have all
\* returned and one of them returned an account identifier, the realm's
\* credentials cache holds no entry for the identity.
C25_NoEntryAfterConcurrentSuccess ==
    (AllReturned /\ \E c \in Callers : Succeeded(calls[c]))
    => \A c \in Callers :
          credentials_cache[CurrentRealm(calls[c])]
                           [GetCacheKey(calls[c].token.identifier)]
             = NoAccount

====
